---- MODULE Spec2Model ----
(***************************************************************************)
(* Model of src/pcb_placement.py: the Max-Rects placement engine           *)
(* (PCBPlacer) with its constraint validator, the three placement          *)
(* heuristics, the split/prune bookkeeping of the free-rectangle pool and  *)
(* the paired opposite-edge placement of the two MikroBus connectors.      *)
(*                                                                         *)
(* A PCBPlacer object is the record                                        *)
(*   [board_width, board_height, placed_components, free_rectangles];      *)
(* a Component object is the record of its dataclass fields.  Methods are  *)
(* operators that take the object ("self") and return the object after the *)
(* call together with the return value and the argument objects as the     *)
(* call leaves them.                                                       *)
(***************************************************************************)
EXTENDS Integers, Sequences, FiniteSets, TLC

VARIABLES
    board_width,        \* PCBPlacer.board_width
    board_height,       \* PCBPlacer.board_height
    placed_components,  \* PCBPlacer.placed_components, Component objects
    free_rectangles,    \* PCBPlacer.free_rectangles
    passed,             \* names of the Component objects already passed in
    calls,              \* number of calls made on the placer
    last,               \* the last call: method, return value, its argument
                        \* objects as the call left them
    rectangles,         \* PruneSpec: the list handed to the prune
    pruned,             \* PruneSpec: the prune of rectangles
    pruned_twice,       \* PruneSpec: the prune of pruned
    prune_pc            \* PruneSpec: "input", "once", "twice"

vars == <<board_width, board_height, placed_components, free_rectangles,
          passed, calls, last, rectangles, pruned, pruned_twice, prune_pc>>

placer_vars == <<board_width, board_height, placed_components,
                 free_rectangles, passed, calls, last>>

prune_vars == <<rectangles, pruned, pruned_twice, prune_pc>>

----------------------------------------------------------------------------
(* Bounds of the model *)

\* number of place_component / force_mikrobus_placement calls in one run
MaxCalls == 3

\* longest list handed to remove_redundant_rectangles in PruneSpec
MaxLen == 3

\* side of the square grid the rectangles of PruneSpec are drawn from
GridSize == 2

----------------------------------------------------------------------------
(* Values *)

\* float('inf'): larger than every leftover length or area on the boards used
Inf == 1000000

\* proximity_target: str = None
None == "None"

Rectangle(x, y, width, height) ==
    [x |-> x, y |-> y, width |-> width, height |-> height]

Component(name, width, height, must_be_on_edge, target, distance) ==
    [name |-> name, width |-> width, height |-> height, x |-> 0, y |-> 0,
     must_be_on_edge |-> must_be_on_edge,
     proximity_target |-> target,
     max_proximity_distance |-> distance]

PCBPlacer(bw, bh) ==
    [board_width |-> bw, board_height |-> bh,
     placed_components |-> <<>>,
     free_rectangles |-> <<Rectangle(0, 0, bw, bh)>>]

Min(a, b) == IF a <= b THEN a ELSE b
Max(a, b) == IF a >= b THEN a ELSE b

----------------------------------------------------------------------------
(* PCBPlacer.is_position_valid *)

\* the overlap test of one placed component against the candidate rectangle
overlaps_placed(component, x, y, placed) ==
    ~ (\/ x >= placed.x + placed.width
       \/ x + component.width <= placed.x
       \/ y >= placed.y + placed.height
       \/ y + component.height <= placed.y)

\* next((c for c in placed_components if c.name == proximity_target), None):
\* the index of the first placed component of that name, 0 when there is none
target_index(self, component) ==
    LET hits == {i \in 1..Len(self.placed_components) :
                    self.placed_components[i].name = component.proximity_target}
    IN IF hits = {} THEN 0 ELSE CHOOSE i \in hits : \A j \in hits : i <= j

\* np.sqrt(dx**2 + dy**2) > max_proximity_distance, for an integer limit,
\* decided on the squares
too_far(component, x, y, target) ==
    LET target_center_x == target.x + target.width \div 2
        target_center_y == target.y + target.height \div 2
        component_center_x == x + component.width \div 2
        component_center_y == y + component.height \div 2
        dx == component_center_x - target_center_x
        dy == component_center_y - target_center_y
    IN dx * dx + dy * dy
         > component.max_proximity_distance * component.max_proximity_distance

\* is_position_valid without the loop over the placed components
is_position_valid_no_overlap(self, component, x, y) ==
    IF \/ x < 0 \/ y < 0
       \/ x + component.width > self.board_width
       \/ y + component.height > self.board_height
    THEN FALSE
    ELSE IF /\ component.must_be_on_edge
            /\ ~ (\/ x = 0 \/ y = 0
                  \/ x + component.width = self.board_width
                  \/ y + component.height = self.board_height)
    THEN FALSE
    ELSE IF /\ component.proximity_target # None
            /\ target_index(self, component) # 0
            /\ too_far(component, x, y,
                       self.placed_components[target_index(self, component)])
    THEN FALSE
    ELSE TRUE

\* is_position_valid without the edge check
is_position_valid_no_edge(self, component, x, y) ==
    IF \/ x < 0 \/ y < 0
       \/ x + component.width > self.board_width
       \/ y + component.height > self.board_height
    THEN FALSE
    ELSE IF \E i \in 1..Len(self.placed_components) :
               overlaps_placed(component, x, y, self.placed_components[i])
    THEN FALSE
    ELSE IF /\ component.proximity_target # None
            /\ target_index(self, component) # 0
            /\ too_far(component, x, y,
                       self.placed_components[target_index(self, component)])
    THEN FALSE
    ELSE TRUE

\* is_position_valid without the proximity check
is_position_valid_no_proximity(self, component, x, y) ==
    IF \/ x < 0 \/ y < 0
       \/ x + component.width > self.board_width
       \/ y + component.height > self.board_height
    THEN FALSE
    ELSE IF \E i \in 1..Len(self.placed_components) :
               overlaps_placed(component, x, y, self.placed_components[i])
    THEN FALSE
    ELSE IF /\ component.must_be_on_edge
            /\ ~ (\/ x = 0 \/ y = 0
                  \/ x + component.width = self.board_width
                  \/ y + component.height = self.board_height)
    THEN FALSE
    ELSE TRUE

\* is_position_valid that rejects every position when the proximity target is
\* not among the placed components
is_position_valid_missing_target_fails(self, component, x, y) ==
    IF \/ x < 0 \/ y < 0
       \/ x + component.width > self.board_width
       \/ y + component.height > self.board_height
    THEN FALSE
    ELSE IF \E i \in 1..Len(self.placed_components) :
               overlaps_placed(component, x, y, self.placed_components[i])
    THEN FALSE
    ELSE IF /\ component.must_be_on_edge
            /\ ~ (\/ x = 0 \/ y = 0
                  \/ x + component.width = self.board_width
                  \/ y + component.height = self.board_height)
    THEN FALSE
    ELSE IF /\ component.proximity_target # None
            /\ \/ target_index(self, component) = 0
               \/ too_far(component, x, y,
                     self.placed_components[target_index(self, component)])
    THEN FALSE
    ELSE TRUE

is_position_valid(self, component, x, y) ==
    IF \/ x < 0 \/ y < 0
       \/ x + component.width > self.board_width
       \/ y + component.height > self.board_height
    THEN FALSE
    ELSE IF \E i \in 1..Len(self.placed_components) :
               overlaps_placed(component, x, y, self.placed_components[i])
    THEN FALSE
    ELSE IF /\ component.must_be_on_edge
            /\ ~ (\/ x = 0 \/ y = 0
                  \/ x + component.width = self.board_width
                  \/ y + component.height = self.board_height)
    THEN FALSE
    ELSE IF /\ component.proximity_target # None
            /\ target_index(self, component) # 0
            /\ too_far(component, x, y,
                       self.placed_components[target_index(self, component)])
    THEN FALSE
    ELSE TRUE

----------------------------------------------------------------------------
(* The three heuristics: a scan of free_rectangles in list order *)

RECURSIVE bssf_scan(_, _, _, _)
bssf_scan(self, component, i, best) ==
    IF i > Len(self.free_rectangles) THEN best
    ELSE LET rect == self.free_rectangles[i]
             leftover_horizontal == rect.width - component.width
             leftover_vertical == rect.height - component.height
             short_side == Min(leftover_horizontal, leftover_vertical)
             long_side == Max(leftover_horizontal, leftover_vertical)
             better ==
                 /\ rect.width >= component.width
                 /\ rect.height >= component.height
                 /\ is_position_valid(self, component, rect.x, rect.y)
                 /\ \/ short_side < best.short_side
                    \/ (short_side = best.short_side
                        /\ long_side < best.long_side)
         IN bssf_scan(self, component, i + 1,
                IF better
                THEN [x |-> rect.x, y |-> rect.y,
                      short_side |-> short_side, long_side |-> long_side]
                ELSE best)

find_best_position_bssf(self, component) ==
    LET b == bssf_scan(self, component, 1,
                 [x |-> -1, y |-> -1, short_side |-> Inf, long_side |-> Inf])
    IN [x |-> b.x, y |-> b.y, score |-> b.short_side]

RECURSIVE blsf_scan(_, _, _, _)
blsf_scan(self, component, i, best) ==
    IF i > Len(self.free_rectangles) THEN best
    ELSE LET rect == self.free_rectangles[i]
             leftover_horizontal == rect.width - component.width
             leftover_vertical == rect.height - component.height
             short_side == Min(leftover_horizontal, leftover_vertical)
             long_side == Max(leftover_horizontal, leftover_vertical)
             better ==
                 /\ rect.width >= component.width
                 /\ rect.height >= component.height
                 /\ is_position_valid(self, component, rect.x, rect.y)
                 /\ \/ long_side < best.long_side
                    \/ (long_side = best.long_side
                        /\ short_side < best.short_side)
         IN blsf_scan(self, component, i + 1,
                IF better
                THEN [x |-> rect.x, y |-> rect.y,
                      short_side |-> short_side, long_side |-> long_side]
                ELSE best)

find_best_position_blsf(self, component) ==
    LET b == blsf_scan(self, component, 1,
                 [x |-> -1, y |-> -1, short_side |-> Inf, long_side |-> Inf])
    IN [x |-> b.x, y |-> b.y, score |-> b.long_side]

RECURSIVE baf_scan(_, _, _, _)
baf_scan(self, component, i, best) ==
    IF i > Len(self.free_rectangles) THEN best
    ELSE LET rect == self.free_rectangles[i]
             leftover_horizontal == rect.width - component.width
             leftover_vertical == rect.height - component.height
             area_fit == leftover_horizontal * leftover_vertical
             short_side == Min(leftover_horizontal, leftover_vertical)
             better ==
                 /\ rect.width >= component.width
                 /\ rect.height >= component.height
                 /\ is_position_valid(self, component, rect.x, rect.y)
                 /\ \/ area_fit < best.area_fit
                    \/ (area_fit = best.area_fit
                        /\ short_side < best.short_side)
         IN baf_scan(self, component, i + 1,
                IF better
                THEN [x |-> rect.x, y |-> rect.y,
                      area_fit |-> area_fit, short_side |-> short_side]
                ELSE best)

find_best_position_baf(self, component) ==
    LET b == baf_scan(self, component, 1,
                 [x |-> -1, y |-> -1, area_fit |-> Inf, short_side |-> Inf])
    IN [x |-> b.x, y |-> b.y, score |-> b.area_fit]

----------------------------------------------------------------------------
(* Free-rectangle bookkeeping *)

\* split_free_rectangle without the bottom strip
split_free_rectangle_no_bottom(rect, component, x, y) ==
    (IF x > rect.x
     THEN <<Rectangle(rect.x, rect.y, x - rect.x, rect.height)>>
     ELSE <<>>)
    \o
    (IF x + component.width < rect.x + rect.width
     THEN <<Rectangle(x + component.width, rect.y,
                      rect.x + rect.width - x - component.width, rect.height)>>
     ELSE <<>>)
    \o
    (IF y > rect.y
     THEN <<Rectangle(rect.x, rect.y, rect.width, y - rect.y)>>
     ELSE <<>>)

split_free_rectangle(rect, component, x, y) ==
    (IF x > rect.x
     THEN <<Rectangle(rect.x, rect.y, x - rect.x, rect.height)>>
     ELSE <<>>)
    \o
    (IF x + component.width < rect.x + rect.width
     THEN <<Rectangle(x + component.width, rect.y,
                      rect.x + rect.width - x - component.width, rect.height)>>
     ELSE <<>>)
    \o
    (IF y > rect.y
     THEN <<Rectangle(rect.x, rect.y, rect.width, y - rect.y)>>
     ELSE <<>>)
    \o
    (IF y + component.height < rect.y + rect.height
     THEN <<Rectangle(rect.x, y + component.height, rect.width,
                      rect.y + rect.height - y - component.height)>>
     ELSE <<>>)

\* splits only the free rectangles that hold the component's top-left corner
intersects_corner_only(rect, component, x, y) ==
    /\ rect.x <= x
    /\ x < rect.x + rect.width
    /\ rect.y <= y
    /\ y < rect.y + rect.height

\* the test that decides whether a free rectangle is split or kept
intersects(rect, component, x, y) ==
    /\ x < rect.x + rect.width
    /\ x + component.width > rect.x
    /\ y < rect.y + rect.height
    /\ y + component.height > rect.y

\* the loop that builds new_free_rectangles, from index i on
RECURSIVE new_free_rectangles(_, _, _, _, _)
new_free_rectangles(free, component, x, y, i) ==
    IF i > Len(free) THEN <<>>
    ELSE (IF intersects(free[i], component, x, y)
          THEN split_free_rectangle(free[i], component, x, y)
          ELSE <<free[i]>>)
         \o new_free_rectangles(free, component, x, y, i + 1)

\* rect2 contains rect1 on all four bounds
contains(rect2, rect1) ==
    /\ rect2.x <= rect1.x
    /\ rect2.y <= rect1.y
    /\ rect2.x + rect2.width >= rect1.x + rect1.width
    /\ rect2.y + rect2.height >= rect1.y + rect1.height

\* removes a contained rectangle from the list while iterating over it, so
\* the element after a removed one is skipped
remove_redundant_rectangles_in_place(rects) ==
    LET without(l, i) == [k \in 1..(Len(l) - 1) |->
                             IF k < i THEN l[k] ELSE l[k + 1]]
        RECURSIVE scan(_, _)
        scan(l, i) ==
            IF i > Len(l) THEN l
            ELSE IF \E j \in 1..Len(l) : i # j /\ contains(l[j], l[i])
            THEN scan(without(l, i), i + 1)
            ELSE scan(l, i + 1)
    IN scan(rects, 1)

remove_redundant_rectangles(rects) ==
    LET is_redundant(i) ==
            \E j \in 1..Len(rects) : i # j /\ contains(rects[j], rects[i])
        RECURSIVE non_redundant(_)
        non_redundant(i) ==
            IF i > Len(rects) THEN <<>>
            ELSE (IF is_redundant(i) THEN <<>> ELSE <<rects[i]>>)
                 \o non_redundant(i + 1)
    IN non_redundant(1)

----------------------------------------------------------------------------
(* PCBPlacer.place_component *)

\* best_of that lets a later heuristic replace the position on an equal score
best_of_not_strict(self, component) ==
    LET start == [x |-> -1, y |-> -1, score |-> Inf]
        step(best, h) ==
            IF h.x # -1 /\ h.score <= best.score THEN h ELSE best
    IN step(step(step(start, find_best_position_bssf(self, component)),
                 find_best_position_blsf(self, component)),
            find_best_position_baf(self, component))

\* the loop over the heuristics: keep the first strictly smallest score
best_of(self, component) ==
    LET start == [x |-> -1, y |-> -1, score |-> Inf]
        step(best, h) ==
            IF h.x # -1 /\ h.score < best.score THEN h ELSE best
    IN step(step(step(start, find_best_position_bssf(self, component)),
                 find_best_position_blsf(self, component)),
            find_best_position_baf(self, component))

\* the commit of the component at (x, y): position stored, component appended,
\* free rectangles split and pruned
commit(self, component, x, y) ==
    [self EXCEPT
        !.placed_components = Append(@, [component EXCEPT !.x = x, !.y = y]),
        !.free_rectangles =
            remove_redundant_rectangles(
                new_free_rectangles(@, component, x, y, 1))]

\* place_component from the best position on: the early return and the commit
place_best(self, component, best) ==
    IF best.x = -1
    THEN [ok |-> FALSE, self |-> self, component |-> component]
    ELSE [ok |-> TRUE, self |-> commit(self, component, best.x, best.y),
          component |-> [component EXCEPT !.x = best.x, !.y = best.y]]

\* place_best that stores the best position in the component before it tests
\* whether a position was found
place_best_assign_first(self, component, best) ==
    IF best.x = -1
    THEN [ok |-> FALSE, self |-> self,
          component |-> [component EXCEPT !.x = best.x, !.y = best.y]]
    ELSE [ok |-> TRUE, self |-> commit(self, component, best.x, best.y),
          component |-> [component EXCEPT !.x = best.x, !.y = best.y]]

\* place_component with the position stored before the test
place_component_assign_first(self, component) ==
    place_best_assign_first(self, component, best_of(self, component))

\* Returns the return value, the placer after the call and the component
\* object after the call.
place_component(self, component) ==
    place_best(self, component, best_of(self, component))

----------------------------------------------------------------------------
(* PCBPlacer.check_mikrobus_parallel_constraint *)

check_mikrobus_parallel_constraint(self, mb1, mb2) ==
    LET mb1_on_left == mb1.x = 0
        mb1_on_right == mb1.x + mb1.width = self.board_width
        mb1_on_top == mb1.y = 0
        mb1_on_bottom == mb1.y + mb1.height = self.board_height
        mb2_on_left == mb2.x = 0
        mb2_on_right == mb2.x + mb2.width = self.board_width
        mb2_on_top == mb2.y = 0
        mb2_on_bottom == mb2.y + mb2.height = self.board_height
        opposite_horizontal == \/ (mb1_on_left /\ mb2_on_right)
                               \/ (mb1_on_right /\ mb2_on_left)
        opposite_vertical == \/ (mb1_on_top /\ mb2_on_bottom)
                             \/ (mb1_on_bottom /\ mb2_on_top)
    IN opposite_horizontal \/ opposite_vertical

----------------------------------------------------------------------------
(* PCBPlacer.force_mikrobus_placement *)

\* [v for v in range(46) if v % 5 == 0], in increasing order
RECURSIVE range46_step5(_)
range46_step5(v) ==
    IF v >= 46 THEN <<>>
    ELSE (IF v % 5 = 0 THEN <<v>> ELSE <<>>) \o range46_step5(v + 1)

\* target_positions with the rows of the top and bottom branches exchanged, so
\* that the partner goes to the anchor's own edge
target_positions_same_row(self, mb1) ==
    LET grid == range46_step5(0)
    IN IF mb1.x = 0
       THEN [k \in 1..Len(grid) |-> <<45, grid[k]>>]
       ELSE IF mb1.x + mb1.width = self.board_width
       THEN [k \in 1..Len(grid) |-> <<0, grid[k]>>]
       ELSE IF mb1.y = 0
       THEN [k \in 1..Len(grid) |-> <<grid[k], 0>>]
       ELSE IF mb1.y + mb1.height = self.board_height
       THEN [k \in 1..Len(grid) |-> <<grid[k], 45>>]
       ELSE <<>>

\* the if/elif chain on the position mb1 was placed at
target_positions(self, mb1) ==
    LET grid == range46_step5(0)
    IN IF mb1.x = 0
       THEN [k \in 1..Len(grid) |-> <<45, grid[k]>>]
       ELSE IF mb1.x + mb1.width = self.board_width
       THEN [k \in 1..Len(grid) |-> <<0, grid[k]>>]
       ELSE IF mb1.y = 0
       THEN [k \in 1..Len(grid) |-> <<grid[k], 45>>]
       ELSE IF mb1.y + mb1.height = self.board_height
       THEN [k \in 1..Len(grid) |-> <<grid[k], 0>>]
       ELSE <<>>

\* the loop over target_positions from index k on: the partner is committed
\* at the first valid position, and the call fails when there is none
RECURSIVE try_positions(_, _, _, _, _)
try_positions(self, mb1, mb2, positions, k) ==
    IF k > Len(positions)
    THEN [ok |-> FALSE, self |-> self, mb1 |-> mb1, mb2 |-> mb2,
          anchored |-> TRUE]
    ELSE IF is_position_valid(self, mb2, positions[k][1], positions[k][2])
    THEN [ok |-> TRUE,
          self |-> commit(self, mb2, positions[k][1], positions[k][2]),
          mb1 |-> mb1,
          mb2 |-> [mb2 EXCEPT !.x = positions[k][1], !.y = positions[k][2]],
          anchored |-> TRUE]
    ELSE try_positions(self, mb1, mb2, positions, k + 1)

\* force_mikrobus_placement after place_component(mb1) returned `first`
force_after_anchor(first, mb2) ==
    IF ~ first.ok
    THEN [ok |-> FALSE, self |-> first.self, mb1 |-> first.component,
          mb2 |-> mb2, anchored |-> FALSE]
    ELSE try_positions(first.self, first.component, mb2,
                       target_positions(first.self, first.component), 1)

\* the result r of a call made on placer self, with the anchor's placement
\* undone when no position of the partner validated
rolled_back(self, r) ==
    IF r.anchored /\ ~ r.ok THEN [r EXCEPT !.self = self] ELSE r

\* force_mikrobus_placement that undoes the anchor's placement when no
\* position of the partner validates
force_mikrobus_placement_rollback(self, mb1, mb2) ==
    rolled_back(self, force_after_anchor(place_component(self, mb1), mb2))

\* Returns the return value, the placer after the call, both component
\* objects after the call, and whether the call got past place_component(mb1).
force_mikrobus_placement(self, mb1, mb2) ==
    force_after_anchor(place_component(self, mb1), mb2)

----------------------------------------------------------------------------
(* The callers' inputs *)

\* board sizes a PCBPlacer is constructed with (solve_pcb_placement uses 50x50)
BoardSizes == {<<50, 50>>, <<60, 60>>}

\* width x height of the components handed in
Sizes == {<<5, 5>>, <<5, 10>>, <<45, 5>>, <<5, 42>>}

\* max_proximity_distance of a component with a proximity target
Distances == {0, 10}

\* The Component objects a caller may construct, after create_components: two
\* edge connectors, an unconstrained part, and a part that must stay near it.
Components ==
    {Component(n, s[1], s[2], TRUE, None, 0) :
        n \in {"MIKROBUS_CONNECTOR_1", "MIKROBUS_CONNECTOR_2"}, s \in Sizes}
    \cup {Component("MICROCONTROLLER", s[1], s[2], FALSE, None, 0) : s \in Sizes}
    \cup {Component("CRYSTAL", s[1], s[2], FALSE, "MICROCONTROLLER", d) :
            s \in Sizes, d \in Distances}

NoCall == [method |-> "none", ok |-> TRUE, args |-> <<>>, anchored |-> FALSE]

----------------------------------------------------------------------------
(* The placer as a state machine *)

Self == [board_width |-> board_width, board_height |-> board_height,
         placed_components |-> placed_components,
         free_rectangles |-> free_rectangles]

Init ==
    /\ \E b \in BoardSizes :
          /\ board_width = PCBPlacer(b[1], b[2]).board_width
          /\ board_height = PCBPlacer(b[1], b[2]).board_height
          /\ placed_components = PCBPlacer(b[1], b[2]).placed_components
          /\ free_rectangles = PCBPlacer(b[1], b[2]).free_rectangles
    /\ passed = {}
    /\ calls = 0
    /\ last = NoCall
    /\ rectangles = <<>>
    /\ pruned = <<>>
    /\ pruned_twice = <<>>
    /\ prune_pc = "idle"

\* placer.place_component(component), on an object not passed before
PlaceComponent(component) ==
    /\ calls < MaxCalls
    /\ component.name \notin passed
    /\ LET r == place_component(Self, component)
       IN /\ placed_components' = r.self.placed_components
          /\ free_rectangles' = r.self.free_rectangles
          /\ last' = [method |-> "place_component", ok |-> r.ok,
                      args |-> <<r.component>>, anchored |-> FALSE]
    /\ passed' = passed \cup {component.name}
    /\ calls' = calls + 1
    /\ UNCHANGED <<board_width, board_height, prune_vars>>

\* placer.force_mikrobus_placement(mb1, mb2), on two objects not passed before
ForceMikrobusPlacement(mb1, mb2) ==
    /\ calls < MaxCalls
    /\ mb1.name \notin passed
    /\ mb2.name \notin passed
    /\ mb1.name # mb2.name
    /\ LET r == force_mikrobus_placement(Self, mb1, mb2)
       IN /\ placed_components' = r.self.placed_components
          /\ free_rectangles' = r.self.free_rectangles
          /\ last' = [method |-> "force_mikrobus_placement", ok |-> r.ok,
                      args |-> <<r.mb1, r.mb2>>, anchored |-> r.anchored]
    /\ passed' = passed \cup {mb1.name, mb2.name}
    /\ calls' = calls + 1
    /\ UNCHANGED <<board_width, board_height, prune_vars>>

Next ==
    \/ \E component \in Components : PlaceComponent(component)
    \/ \E mb1 \in Components, mb2 \in Components :
          ForceMikrobusPlacement(mb1, mb2)

Spec == Init /\ [][Next]_vars

----------------------------------------------------------------------------
(* remove_redundant_rectangles as a function of an arbitrary list *)

\* the rectangles of positive size inside a GridSize x GridSize grid
GridRectangles ==
    {Rectangle(x, y, w, h) : x \in 0..GridSize - 1, y \in 0..GridSize - 1,
                             w \in 1..GridSize, h \in 1..GridSize}
    \ {r \in [x : 0..GridSize - 1, y : 0..GridSize - 1,
              width : 1..GridSize, height : 1..GridSize] :
          r.x + r.width > GridSize \/ r.y + r.height > GridSize}

PruneInit ==
    /\ board_width = 0
    /\ board_height = 0
    /\ placed_components = <<>>
    /\ free_rectangles = <<>>
    /\ passed = {}
    /\ calls = 0
    /\ last = NoCall
    /\ \E n \in 0..MaxLen : rectangles \in [1..n -> GridRectangles]
    /\ pruned = <<>>
    /\ pruned_twice = <<>>
    /\ prune_pc = "input"

PruneOnce ==
    /\ prune_pc = "input"
    /\ pruned' = remove_redundant_rectangles(rectangles)
    /\ prune_pc' = "once"
    /\ UNCHANGED <<rectangles, pruned_twice, placer_vars>>

PruneTwice ==
    /\ prune_pc = "once"
    /\ pruned_twice' = remove_redundant_rectangles(pruned)
    /\ prune_pc' = "twice"
    /\ UNCHANGED <<rectangles, pruned, placer_vars>>

PruneNext == PruneOnce \/ PruneTwice

PruneSpec == PruneInit /\ [][PruneNext]_vars

----------------------------------------------------------------------------
(* solve_pcb_placement: the four phases on the components of                *)
(* create_components, with the board size as an input                       *)

create_components ==
    <<Component("USB_CONNECTOR", 5, 5, TRUE, None, 0),
      Component("MIKROBUS_CONNECTOR_1", 5, 5, TRUE, None, 0),
      Component("MIKROBUS_CONNECTOR_2", 5, 5, TRUE, None, 0),
      Component("MICROCONTROLLER", 5, 5, FALSE, None, 0),
      Component("CRYSTAL", 5, 5, FALSE, "MICROCONTROLLER", 10)>>

\* next(c for c in components if c.name == name)
component_named(components, name) ==
    components[CHOOSE i \in 1..Len(components) :
                  /\ components[i].name = name
                  /\ \A j \in 1..(i - 1) : components[j].name # name]

\* the sides of the boards the phases are run on; the program's board is 50x50
SolveBoardSides == {45, 50, 55, 60, 65, 70}

SolveInit ==
    /\ \E bw \in SolveBoardSides, bh \in SolveBoardSides :
          /\ board_width = PCBPlacer(bw, bh).board_width
          /\ board_height = PCBPlacer(bw, bh).board_height
          /\ placed_components = PCBPlacer(bw, bh).placed_components
          /\ free_rectangles = PCBPlacer(bw, bh).free_rectangles
    /\ passed = {}
    /\ calls = 0
    /\ last = NoCall
    /\ rectangles = <<>>
    /\ pruned = <<>>
    /\ pruned_twice = <<>>
    /\ prune_pc = "idle"

\* a phase that calls placer.place_component(component)
SolvePlace(component) ==
    /\ LET r == place_component(Self, component)
       IN /\ placed_components' = r.self.placed_components
          /\ free_rectangles' = r.self.free_rectangles
          /\ last' = [method |-> "place_component", ok |-> r.ok,
                      args |-> <<r.component>>, anchored |-> FALSE]
    /\ passed' = passed \cup {component.name}
    /\ calls' = calls + 1
    /\ UNCHANGED <<board_width, board_height, prune_vars>>

\* Phase 1: the USB connector
SolvePhase1 ==
    /\ calls = 0
    /\ SolvePlace(component_named(create_components, "USB_CONNECTOR"))

\* Phase 2: the two MikroBus connectors, reached only if phase 1 succeeded
SolvePhase2 ==
    /\ calls = 1
    /\ last.ok
    /\ LET r == force_mikrobus_placement(Self,
                  component_named(create_components, "MIKROBUS_CONNECTOR_1"),
                  component_named(create_components, "MIKROBUS_CONNECTOR_2"))
       IN /\ placed_components' = r.self.placed_components
          /\ free_rectangles' = r.self.free_rectangles
          /\ last' = [method |-> "force_mikrobus_placement", ok |-> r.ok,
                      args |-> <<r.mb1, r.mb2>>, anchored |-> r.anchored]
    /\ passed' = passed \cup {"MIKROBUS_CONNECTOR_1", "MIKROBUS_CONNECTOR_2"}
    /\ calls' = calls + 1
    /\ UNCHANGED <<board_width, board_height, prune_vars>>

\* Phase 3: the microcontroller, reached only if phase 2 succeeded
SolvePhase3 ==
    /\ calls = 2
    /\ last.ok
    /\ SolvePlace(component_named(create_components, "MICROCONTROLLER"))

\* Phase 4: the crystal, reached only if phase 3 succeeded
SolvePhase4 ==
    /\ calls = 3
    /\ last.ok
    /\ SolvePlace(component_named(create_components, "CRYSTAL"))

SolveNext == SolvePhase1 \/ SolvePhase2 \/ SolvePhase3 \/ SolvePhase4

SolveSpec == SolveInit /\ [][SolveNext]_vars

\* validate_all_constraints(placer), on a placer that holds all five components
validate_all_constraints(self) ==
    LET placed == self.placed_components
        crystal == component_named(placed, "CRYSTAL")
        microcontroller == component_named(placed, "MICROCONTROLLER")
        mb1 == component_named(placed, "MIKROBUS_CONNECTOR_1")
        mb2 == component_named(placed, "MIKROBUS_CONNECTOR_2")
        mc_center_x == microcontroller.x + microcontroller.width \div 2
        mc_center_y == microcontroller.y + microcontroller.height \div 2
        crystal_center_x == crystal.x + crystal.width \div 2
        crystal_center_y == crystal.y + crystal.height \div 2
        dx == crystal_center_x - mc_center_x
        dy == crystal_center_y - mc_center_y
    IN /\ \A i \in 1..Len(placed) :
             /\ 0 <= placed[i].x
             /\ 0 <= placed[i].y
             /\ placed[i].x + placed[i].width <= self.board_width
             /\ placed[i].y + placed[i].height <= self.board_height
       /\ \A i \in 1..Len(placed) : \A j \in (i + 1)..Len(placed) :
             \/ placed[i].x >= placed[j].x + placed[j].width
             \/ placed[i].x + placed[i].width <= placed[j].x
             \/ placed[i].y >= placed[j].y + placed[j].height
             \/ placed[i].y + placed[i].height <= placed[j].y
       /\ \A i \in 1..Len(placed) :
             placed[i].must_be_on_edge =>
                \/ placed[i].x = 0
                \/ placed[i].y = 0
                \/ placed[i].x + placed[i].width = self.board_width
                \/ placed[i].y + placed[i].height = self.board_height
       /\ dx * dx + dy * dy <= 10 * 10
       /\ check_mikrobus_parallel_constraint(self, mb1, mb2)

----------------------------------------------------------------------------
(* Geometry used to state the properties *)

\* the interiors of two rectangles share a point
Overlap(a, b) ==
    /\ a.x < b.x + b.width
    /\ b.x < a.x + a.width
    /\ a.y < b.y + b.height
    /\ b.y < a.y + a.height

WithinBoard(r) ==
    /\ r.x >= 0
    /\ r.y >= 0
    /\ r.x + r.width <= board_width
    /\ r.y + r.height <= board_height

OnLeft(r) == r.x = 0
OnRight(r) == r.x + r.width = board_width
OnTop(r) == r.y = 0
OnBottom(r) == r.y + r.height = board_height

TouchesEdge(r) == OnLeft(r) \/ OnRight(r) \/ OnTop(r) \/ OnBottom(r)

Placed == {placed_components[i] : i \in 1..Len(placed_components)}
Free == {free_rectangles[i] : i \in 1..Len(free_rectangles)}

\* the unit cell with upper-left corner (i, j) lies in rectangle r
CellIn(i, j, r) ==
    /\ r.x <= i /\ i < r.x + r.width
    /\ r.y <= j /\ j < r.y + r.height

\* Columns and rows at which the set of rectangles over a cell can change: a
\* unit cell lies in exactly the rectangles that the cell at the nearest cut
\* to its left and above lies in, so the cells at the cuts stand for all cells.
XCuts ==
    {0} \cup {c \in 0..board_width - 1 :
                 \E r \in Placed \cup Free : c = r.x \/ c = r.x + r.width}
YCuts ==
    {0} \cup {c \in 0..board_height - 1 :
                 \E r \in Placed \cup Free : c = r.y \/ c = r.y + r.height}

----------------------------------------------------------------------------
(* Properties *)

\* C1: after any sequence of place_component and force_mikrobus_placement
\* calls, every placed component lies within the board and no two placed
\* components overlap (touching edges are allowed).
PlacedWithinBoardAndDisjoint ==
    /\ \A i \in 1..Len(placed_components) : WithinBoard(placed_components[i])
    /\ \A i, j \in 1..Len(placed_components) :
          i < j => ~ Overlap(placed_components[i], placed_components[j])

\* C1 witness: a successful paired placement has followed an earlier
\* placement, so components committed by both methods are on the board.
PairPlacedAfterAnother ==
    /\ last.method = "force_mikrobus_placement"
    /\ last.ok
    /\ Len(placed_components) >= 3

\* C2: the free rectangles together with the placed components cover every
\* unit cell of the board.
BoardCovered ==
    \A i \in XCuts, j \in YCuts :
        \E r \in Placed \cup Free : CellIn(i, j, r)

\* C2 witness: both kinds of commit have happened and free space is left in
\* more than one rectangle.
CommitsLeftSeveralFree ==
    /\ last.method = "force_mikrobus_placement"
    /\ last.ok
    /\ Len(placed_components) >= 3
    /\ Len(free_rectangles) >= 2

\* C3: no free rectangle overlaps a placed component.
FreeDisjointFromPlaced ==
    \A f \in Free, p \in Placed : ~ Overlap(f, p)

\* C3 witness: components are placed, the partner commit included, and two
\* different free rectangles overlap one another.
FreeRectanglesOverlapEachOther ==
    /\ last.method = "force_mikrobus_placement"
    /\ last.ok
    /\ \E f, g \in Free : f # g /\ Overlap(f, g)

\* C4 (as claimed): after a successful force_mikrobus_placement the partner
\* touches the edge opposite the first of left, right, top, bottom that the
\* anchor touches, and check_mikrobus_parallel_constraint holds.
PartnerOnOppositeEdge ==
    (last.method = "force_mikrobus_placement" /\ last.ok) =>
        LET mb1 == last.args[1]
            mb2 == last.args[2]
        IN /\ IF OnLeft(mb1) THEN OnRight(mb2)
              ELSE IF OnRight(mb1) THEN OnLeft(mb2)
              ELSE IF OnTop(mb1) THEN OnBottom(mb2)
              ELSE OnBottom(mb1) /\ OnTop(mb2)
           /\ check_mikrobus_parallel_constraint(Self, mb1, mb2)

\* C5: every placed component with must_be_on_edge touches a board edge.
EdgeComponentsOnEdge ==
    \A p \in Placed : p.must_be_on_edge => TouchesEdge(p)

\* C5 witness: edge components were committed as anchor and as partner of a
\* paired placement.
EdgePairPlaced ==
    /\ last.method = "force_mikrobus_placement"
    /\ last.ok
    /\ last.args[1].must_be_on_edge
    /\ last.args[2].must_be_on_edge

\* squared distance between the centers, each at (x + width // 2, y + height // 2)
CenterDistanceSquared(a, b) ==
    LET dx == (a.x + a.width \div 2) - (b.x + b.width \div 2)
        dy == (a.y + a.height \div 2) - (b.y + b.height \div 2)
    IN dx * dx + dy * dy

\* C6: a component committed when its proximity target was already placed has
\* its center within max_proximity_distance of the target's center.
ProximityRespected ==
    \A j \in 1..Len(placed_components) :
        \A i \in 1..(j - 1) :
            LET c == placed_components[j]
                t == placed_components[i]
            IN (c.proximity_target = t.name) =>
                  CenterDistanceSquared(c, t)
                     <= c.max_proximity_distance * c.max_proximity_distance

\* C6 witness: a component is placed after, and near, its proximity target.
PlacedNearTarget ==
    \E j \in 1..Len(placed_components) :
        \E i \in 1..(j - 1) :
            placed_components[j].proximity_target = placed_components[i].name

\* C7: a place_component call that returns False changes neither the placed
\* list (so no earlier placement) nor the free rectangles, and leaves the
\* rejected component as it was constructed.
FailedPlaceMutatesNothing ==
    [][(calls' = calls + 1 /\ last'.method = "place_component" /\ ~ last'.ok)
          => /\ placed_components' = placed_components
             /\ free_rectangles' = free_rectangles
             /\ last'.args[1] \in Components]_vars

\* C7 witness: place_component has failed on a board that holds earlier
\* placements.
PlaceFailedAfterPlacements ==
    /\ last.method = "place_component"
    /\ ~ last.ok
    /\ Len(placed_components) >= 1

\* C8: when force_mikrobus_placement returns False after placing the anchor,
\* the placed list is the old one plus the anchor at the position
\* place_component gave it, the free rectangles are those place_component left
\* for the anchor, and the partner is not placed and is as it was constructed.
FailedPairKeepsAnchor ==
    [][(/\ calls' = calls + 1
        /\ last'.method = "force_mikrobus_placement"
        /\ ~ last'.ok
        /\ last'.anchored)
          => LET mb1 == last'.args[1]
                 mb2 == last'.args[2]
                 alone == place_component(Self, [mb1 EXCEPT !.x = 0, !.y = 0])
             IN /\ alone.ok
                /\ mb1 = alone.component
                /\ WithinBoard(mb1)
                /\ placed_components' = Append(placed_components, mb1)
                /\ free_rectangles' = alone.self.free_rectangles
                /\ \A f \in {free_rectangles'[k] :
                                k \in 1..Len(free_rectangles')} :
                       ~ Overlap(f, mb1)
                /\ mb2 \in Components
                /\ \A p \in {placed_components'[k] :
                                k \in 1..Len(placed_components')} :
                       p.name # mb2.name]_vars

\* C8 witness: a paired placement failed with its anchor placed on none of
\* the four edges.
PairFailedAnchorInside ==
    /\ last.method = "force_mikrobus_placement"
    /\ ~ last.ok
    /\ last.anchored
    /\ ~ TouchesEdge(last.args[1])

\* C9 (as claimed): every rectangle of the list handed to the prune is
\* contained in a rectangle of the result, so no covered area is lost.
PruneKeepsCoveredArea ==
    (prune_pc # "input") =>
        \A i \in 1..Len(rectangles) :
            \E k \in 1..Len(pruned) : contains(pruned[k], rectangles[i])

\* C10: pruning the result of a prune returns it unchanged, same elements in
\* the same order.
PruneIdempotent ==
    (prune_pc = "twice") => pruned_twice = pruned

\* C10 witness: the second prune ran on a result that kept several rectangles
\* after the first prune had removed some.
PrunedTwiceAfterRemoval ==
    /\ prune_pc = "twice"
    /\ Len(pruned) >= 2
    /\ Len(pruned) < Len(rectangles)

\* the positions at which the validator is compared: the corners of the free
\* rectangles and of the placed components, and the 5-unit grid lines through
\* the coordinates 0 and 45
ProbePositions ==
    {<<r.x, r.y>> : r \in Free \cup Placed}
    \cup {<<r.x + r.width, r.y + r.height>> : r \in Placed}
    \cup {<<a, 5 * k>> : a \in {0, 45}, k \in 0..11}
    \cup {<<5 * k, a>> : a \in {0, 45}, k \in 0..11}

\* the components not yet passed whose proximity target is not placed
MissingTargetComponents ==
    {c \in Components :
        /\ c.name \notin passed
        /\ c.proximity_target # None
        /\ \A p \in Placed : p.name # c.proximity_target}

\* the component with its proximity constraint unset
Unconstrained(c) ==
    [c EXCEPT !.proximity_target = None, !.max_proximity_distance = 0]

\* C11: for a component whose proximity target is not placed, is_position_valid
\* answers as for the same component without a proximity target, and
\* place_component succeeds or fails alike and commits the same position.
MissingTargetIsUnconstrained ==
    \A c \in MissingTargetComponents :
        /\ \A pos \in ProbePositions :
              is_position_valid(Self, c, pos[1], pos[2])
                 = is_position_valid(Self, Unconstrained(c), pos[1], pos[2])
        /\ LET with == place_component(Self, c)
               without == place_component(Self, Unconstrained(c))
           IN /\ with.ok = without.ok
              /\ with.component.x = without.component.x
              /\ with.component.y = without.component.y
              /\ with.self.free_rectangles = without.self.free_rectangles

\* C11 witness: place_component committed a component with a limit of 0 whose
\* proximity target is not on the board, next to earlier placements.
PlacedWithMissingTarget ==
    /\ last.method = "place_component"
    /\ last.ok
    /\ last.args[1].proximity_target # None
    /\ last.args[1].max_proximity_distance = 0
    /\ \A p \in Placed : p.name # last.args[1].proximity_target
    /\ Len(placed_components) >= 2

\* the placed component of that name
PlacedNamed(name) == CHOOSE p \in Placed : p.name = name

\* C12: on the 50x50 board every phase of the demo succeeds, and after phase 4
\* the five components are within the board, pairwise disjoint, the three
\* connectors touch an edge, the crystal's center is within 10 of the
\* microcontroller's, and the two MikroBus connectors are on opposite edges.
DemoSucceedsAndValidates ==
    (board_width = 50 /\ board_height = 50) =>
        /\ last.ok
        /\ (calls = 4) =>
              /\ {p.name : p \in Placed}
                    = {"USB_CONNECTOR", "MIKROBUS_CONNECTOR_1",
                       "MIKROBUS_CONNECTOR_2", "MICROCONTROLLER", "CRYSTAL"}
              /\ Len(placed_components) = 5
              /\ \A p \in Placed : WithinBoard(p)
              /\ \A p, q \in Placed : p # q => ~ Overlap(p, q)
              /\ \A n \in {"USB_CONNECTOR", "MIKROBUS_CONNECTOR_1",
                           "MIKROBUS_CONNECTOR_2"} :
                    TouchesEdge(PlacedNamed(n))
              /\ CenterDistanceSquared(PlacedNamed("CRYSTAL"),
                                       PlacedNamed("MICROCONTROLLER"))
                    <= 10 * 10
              /\ LET a == PlacedNamed("MIKROBUS_CONNECTOR_1")
                     b == PlacedNamed("MIKROBUS_CONNECTOR_2")
                 IN \/ (OnLeft(a) /\ OnRight(b)) \/ (OnRight(a) /\ OnLeft(b))
                    \/ (OnTop(a) /\ OnBottom(b)) \/ (OnBottom(a) /\ OnTop(b))
              /\ validate_all_constraints(Self)

\* C12 witness: phase 4 has returned True on the 50x50 board.
DemoFinished ==
    /\ board_width = 50
    /\ board_height = 50
    /\ calls = 4
    /\ last.ok
    /\ last.args[1].name = "CRYSTAL"

\* the multiples of 5 from 0 up to limit, in increasing order
RECURSIVE StepsOfFive(_, _)
StepsOfFive(v, limit) ==
    IF v > limit THEN <<>> ELSE <<v>> \o StepsOfFive(v + 5, limit)

\* the partner's candidates as claimed: on the edge opposite the anchor's
\* landing edge, every fifth coordinate that keeps the partner on the board
OppositeEdgeCandidates(mb1, mb2) ==
    LET ys == StepsOfFive(0, board_height - mb2.height)
        xs == StepsOfFive(0, board_width - mb2.width)
    IN IF OnLeft(mb1)
       THEN [k \in 1..Len(ys) |-> <<board_width - mb2.width, ys[k]>>]
       ELSE IF OnRight(mb1)
       THEN [k \in 1..Len(ys) |-> <<0, ys[k]>>]
       ELSE IF OnTop(mb1)
       THEN [k \in 1..Len(xs) |-> <<xs[k], board_height - mb2.height>>]
       ELSE IF OnBottom(mb1)
       THEN [k \in 1..Len(xs) |-> <<xs[k], 0>>]
       ELSE <<>>

\* the outcome claimed for the partner on the placer self1 that holds the
\* anchor: committed at the first valid candidate, failure when there is none
ClaimedPartnerOutcome(self1, mb2, candidates, result) ==
    LET valid == {k \in 1..Len(candidates) :
                     is_position_valid(self1, mb2, candidates[k][1],
                                       candidates[k][2])}
    IN IF valid = {}
       THEN ~ result.ok
       ELSE /\ result.ok
            /\ \E k \in valid :
                  /\ \A j \in valid : k <= j
                  /\ result.args[2].x = candidates[k][1]
                  /\ result.args[2].y = candidates[k][2]

\* C13 (as claimed): once the anchor is placed, the partner is committed at
\* the first valid point, in increasing order, among the multiples of 5 on the
\* opposite edge that keep it on the board, and the call fails only when none
\* of them is valid.
PartnerAtFirstOppositeEdgeCandidate ==
    [][(/\ calls' = calls + 1
        /\ last'.method = "force_mikrobus_placement"
        /\ last'.anchored)
          => LET mb1 == last'.args[1]
                 mb2 == [last'.args[2] EXCEPT !.x = 0, !.y = 0]
                 anchor == place_component(Self, [mb1 EXCEPT !.x = 0, !.y = 0])
             IN ClaimedPartnerOutcome(anchor.self, mb2,
                                      OppositeEdgeCandidates(mb1, mb2),
                                      last')]_vars

\* C14: for every component that can still be passed in, place_component
\* succeeds exactly when find_best_position_bssf finds a position, and it
\* commits the position find_best_position_bssf returns.
CommitsBssfPosition ==
    \A c \in Components :
        (c.name \notin passed) =>
            LET r == place_component(Self, c)
                bssf == find_best_position_bssf(Self, c)
            IN /\ r.ok = (bssf.x # -1)
               /\ r.ok => (r.component.x = bssf.x /\ r.component.y = bssf.y)

\* C14 witness: place_component has committed a component for which, on the
\* board it is left with, another heuristic proposes a position other than
\* find_best_position_bssf for some component still to be passed in.
HeuristicsDisagree ==
    /\ last.method = "place_component"
    /\ last.ok
    /\ \E c \in Components :
          /\ c.name \notin passed
          /\ find_best_position_bssf(Self, c).x # -1
          /\ \/ find_best_position_blsf(Self, c).x
                   # find_best_position_bssf(Self, c).x
             \/ find_best_position_blsf(Self, c).y
                   # find_best_position_bssf(Self, c).y
             \/ find_best_position_baf(Self, c).x
                   # find_best_position_bssf(Self, c).x
             \/ find_best_position_baf(Self, c).y
                   # find_best_position_bssf(Self, c).y

====
